---- MODULE Spec2Model ----
(***************************************************************************)
(* easycache: the cache facade (cache.Cache) over its four engines         *)
(* (basic.Basic, fifo.FIFO, lru.LRU, lfu.LFU).                             *)
(*                                                                         *)
(* Spec      one caller at a time: every facade call is one step taken at  *)
(*           one clock instant; the clock and the Basic sweep are steps    *)
(*           of their own.                                                 *)
(* SpecConc  several callers: a facade call is a sequence of engine calls  *)
(*           and the steps of different callers, the clock and the sweep   *)
(*           interleave between them.                                      *)
(***************************************************************************)
EXTENDS Integers, Sequences, FiniteSets, TLC

\* ---- bounds of the model ------------------------------------------------
MaxM == 2          \* largest Config.MaxSize tried
MaxFreq == 3       \* cacheItem.frequency is not incremented past this
MaxTime == 2       \* the clock stops here
MaxTTL == 1        \* largest Config.TTL tried
MaxCount == 3      \* with metrics on, calls stop when hits+misses gets here
NumProcs == 2      \* concurrent callers of SpecConc
MaxCalls == 2      \* facade calls made in a behaviour of SpecConc
MaxMLFU == 3       \* largest Config.MaxSize tried in the specification of LFU alone
MaxLimit == 1      \* largest Config.MemoryLimits tried
MaxInterval == 2   \* largest Config.CleanupInterval tried, in seconds
MaxSeconds == 5    \* the clock stops here in the specification of the sweep's cadence

Keys == {"A", "B", "C"}
Values == {"v1", "v2"}
Policies == {"Basic", "FIFO", "LRU", "LFU"}
Procs == 1..NumProcs

Nil == "nil"
NoId == 0
Ids == 1..(2 * Cardinality(Keys))

\* fifo/lru/lfu cacheItem; list.Element and *cacheItem are the same object here
NoItem == [key |-> "", value |-> Nil, frequency |-> 0, index |-> 0]
\* basic cacheItem; NoEntry stands for "key not in the map"
NoEntry == [value |-> Nil, expiresAt |-> -1]

VARIABLES
    policy, maxSize, ttl, metricsOn,  \* Config, fixed at New
    cleanupInterval,                  \* Config.CleanupInterval as New leaves it
    memoryLimits,                     \* Config.MemoryLimits
    memoryCheckInterval,              \* Config.MemoryCheckInterval
    now,                              \* time.Now()
    items,                            \* the allocated cacheItems, by address
    data,                             \* FIFO/LRU/LFU .data : key -> address
    evictionList,                     \* FIFO/LRU .evictionList, front first
    lfuHeap,                          \* LFU .lfuHeap, slice of addresses
    basicData,                        \* Basic .data : key -> cacheItem
    fault,                            \* "none", or the panic / fatal error
    hits, misses,                     \* Metrics
    sweeper,                          \* Basic.startCleanup: "waiting" | "looping"
    sleepFrom, sweepPasses,           \* cleanupExpiredItems: start of its Sleep; passes made
    memLoop,                          \* startCheckMemoryUsage: "starting" | "ticking" | "returned"
    memLast,                          \* its last tick: the sample and what it did
    last,                             \* the last facade call and its result
    touchOrder, insertOrder, setRun,  \* observers (see the claims)
    storedAt,
    pc, loc, ncalls                   \* SpecConc: callers' positions and locals

cfgVars == <<policy, maxSize, ttl, metricsOn, cleanupInterval, memoryLimits,
             memoryCheckInterval>>
loopVars == <<sleepFrom, sweepPasses, memLoop, memLast>>
engVars == <<items, data, evictionList, lfuHeap, basicData>>
obsVars == <<last, touchOrder, insertOrder, setRun, storedAt>>
concVars == <<pc, loc, ncalls>>
vars == <<cfgVars, loopVars, now, engVars, fault, hits, misses, sweeper, obsVars, concVars>>

\* ---- helpers ------------------------------------------------------------
Range(s) == {s[i] : i \in 1..Len(s)}
Without(s, x) == SelectSeq(s, LAMBDA y : y # x)

\* the engine's memory as one value, so that calls compose
Eng == [items |-> items, data |-> data, evictionList |-> evictionList,
        lfuHeap |-> lfuHeap, basicData |-> basicData, panic |-> "none"]

Panic(e, why) == [e EXCEPT !.panic = IF e.panic = "none" THEN why ELSE e.panic]

UsedIds(e) == {e.data[k] : k \in Keys} \cup Range(e.evictionList) \cup Range(e.lfuHeap)
\* allocation of a cacheItem: the lowest free address
NewId(e) == CHOOSE i \in Ids : i \notin UsedIds(e) /\ \A j \in Ids : j < i => j \in UsedIds(e)
\* garbage collection: an unreachable cacheItem is forgotten
Collect(e) == [e EXCEPT !.items = [i \in Ids |-> IF i \in UsedIds(e) THEN e.items[i] ELSE NoItem]]

Present(e) == IF policy = "Basic" THEN {k \in Keys : e.basicData[k] # NoEntry}
              ELSE {k \in Keys : e.data[k] # NoId}

\* ---- container/list as used by FIFO and LRU -----------------------------
ListRemove(l, id) == Without(l, id)
ListMoveToFront(l, id) == IF id \in Range(l) THEN <<id>> \o Without(l, id) ELSE l

\* ---- container/heap over lfuHeap ---------------------------------------
InHeap(e, i) == i >= 0 /\ i < Len(e.lfuHeap)
HeapItem(e, i) == e.items[e.lfuHeap[i + 1]]

\* lfuHeap.Less
Less(e, i, j) == HeapItem(e, i).frequency < HeapItem(e, j).frequency

\* lfuHeap.Swap
Swap(e, i, j) ==
    IF ~InHeap(e, i) \/ ~InHeap(e, j) THEN Panic(e, "index out of range")
    ELSE LET a == e.lfuHeap[i + 1]
             b == e.lfuHeap[j + 1]
             h == [e.lfuHeap EXCEPT ![i + 1] = b, ![j + 1] = a]
             it1 == [e.items EXCEPT ![h[i + 1]].index = i]
             it2 == [it1 EXCEPT ![h[j + 1]].index = j]
         IN  [e EXCEPT !.lfuHeap = h, !.items = it2]

\* heap.up
RECURSIVE HeapUp(_, _)
HeapUp(e, j) ==
    LET i == IF j = 0 THEN 0 ELSE (j - 1) \div 2
    IN  IF e.panic # "none" \/ i = j THEN e
        ELSE IF ~InHeap(e, j) \/ ~InHeap(e, i) THEN Panic(e, "index out of range")
        ELSE IF ~Less(e, j, i) THEN e
        ELSE HeapUp(Swap(e, i, j), i)

\* heap.down: the engine after the loop and the final position
RECURSIVE HeapDown(_, _, _)
HeapDown(e, i, n) ==
    LET j1 == 2 * i + 1
        j2 == j1 + 1
        j == IF j2 < n /\ Less(e, j2, j1) THEN j2 ELSE j1
    IN  IF j1 >= n THEN [e |-> e, i |-> i]
        ELSE IF ~Less(e, j, i) THEN [e |-> e, i |-> i]
        ELSE HeapDown(Swap(e, i, j), j, n)

\* heap.Fix
HeapFix(e, i) ==
    LET d == HeapDown(e, i, Len(e.lfuHeap))
    IN  IF d.i > i THEN d.e ELSE HeapUp(d.e, i)

\* lfuHeap.Push then heap.up
HeapPush(e, id) ==
    LET n == Len(e.lfuHeap)
        e1 == [e EXCEPT !.items[id].index = n, !.lfuHeap = Append(e.lfuHeap, id)]
    IN  HeapUp(e1, n)

\* lfuHeap.Pop: drops the last slot
SlicePop(e) ==
    IF e.panic # "none" THEN [e |-> e, id |-> NoId]
    ELSE IF Len(e.lfuHeap) = 0 THEN [e |-> Panic(e, "index out of range"), id |-> NoId]
    ELSE [e |-> [e EXCEPT !.lfuHeap = SubSeq(e.lfuHeap, 1, Len(e.lfuHeap) - 1)],
          id |-> e.lfuHeap[Len(e.lfuHeap)]]

\* heap.Pop
HeapPop(e) ==
    LET n == Len(e.lfuHeap) - 1
        e1 == Swap(e, 0, n)
    IN  IF e1.panic # "none" THEN [e |-> e1, id |-> NoId]
        ELSE SlicePop(HeapDown(e1, 0, n).e)

\* heap.Remove
HeapRemove(e, i) ==
    LET n == Len(e.lfuHeap) - 1
    IN  IF n = i THEN SlicePop(e)
        ELSE LET e1 == Swap(e, i, n)
             IN  IF e1.panic # "none" THEN [e |-> e1, id |-> NoId]
                 ELSE LET d == HeapDown(e1, i, n)
                      IN  SlicePop(IF d.i > i THEN d.e ELSE HeapUp(d.e, i))

\* ---- fifo.FIFO ----------------------------------------------------------
NotFound(e) == [e |-> e, value |-> Nil, found |-> FALSE]

FIFOGet(e, key) ==
    IF e.data[key] = NoId THEN NotFound(e)
    ELSE [e |-> e, value |-> e.items[e.data[key]].value, found |-> TRUE]

\* FIFOSet, were an overwrite to queue the key again at the back
FIFOSet_Requeue(e, key, value) ==
    IF e.data[key] # NoId
    THEN [e EXCEPT !.items[e.data[key]].value = value,
                   !.evictionList = Append(Without(e.evictionList, e.data[key]), e.data[key])]
    ELSE LET id == NewId(e)
         IN  [e EXCEPT !.items[id] = [NoItem EXCEPT !.key = key, !.value = value],
                       !.evictionList = Append(e.evictionList, id),
                       !.data[key] = id]

FIFOSet(e, key, value) ==
    IF e.data[key] # NoId
    THEN [e EXCEPT !.items[e.data[key]].value = value]
    ELSE LET id == NewId(e)
         IN  [e EXCEPT !.items[id] = [NoItem EXCEPT !.key = key, !.value = value],
                       !.evictionList = Append(e.evictionList, id),
                       !.data[key] = id]

\* FIFODelete, were it to go on to evictionList.Remove without the exists check
FIFODelete_NoCheck(e, key) ==
    IF e.data[key] = NoId THEN Panic(e, "nil pointer dereference")
    ELSE Collect([e EXCEPT !.evictionList = ListRemove(e.evictionList, e.data[key]),
                           !.data[key] = NoId])

FIFODelete(e, key) ==
    IF e.data[key] = NoId THEN e
    ELSE Collect([e EXCEPT !.evictionList = ListRemove(e.evictionList, e.data[key]),
                           !.data[key] = NoId])

FIFOHas(e, key) == e.data[key] # NoId

FIFOLen(e) == Cardinality({k \in Keys : e.data[k] # NoId})

FIFOEvict(e) ==
    IF FIFOLen(e) = 0 \/ Len(e.evictionList) = 0 THEN e
    ELSE LET elem == Head(e.evictionList)
         IN  Collect([e EXCEPT !.data[e.items[elem].key] = NoId,
                               !.evictionList = ListRemove(e.evictionList, elem)])

\* ---- lru.LRU ------------------------------------------------------------
\* LRUGet, were it to leave the element where it is
LRUGet_NoMove(e, key) ==
    IF e.data[key] = NoId THEN NotFound(e)
    ELSE [e |-> e, value |-> e.items[e.data[key]].value, found |-> TRUE]

LRUGet(e, key) ==
    IF e.data[key] = NoId THEN NotFound(e)
    ELSE [e |-> [e EXCEPT !.evictionList = ListMoveToFront(e.evictionList, e.data[key])],
          value |-> e.items[e.data[key]].value, found |-> TRUE]

LRUSet(e, key, value) ==
    IF e.data[key] # NoId
    THEN [e EXCEPT !.evictionList = ListMoveToFront(e.evictionList, e.data[key]),
                   !.items[e.data[key]].value = value]
    ELSE LET id == NewId(e)
         IN  [e EXCEPT !.items[id] = [NoItem EXCEPT !.key = key, !.value = value],
                       !.evictionList = <<id>> \o e.evictionList,
                       !.data[key] = id]

\* LRUDelete, were it to leave the element in the list
LRUDelete_KeepsElement(e, key) ==
    IF e.data[key] = NoId THEN e
    ELSE [e EXCEPT !.data[key] = NoId]

LRUDelete(e, key) ==
    IF e.data[key] = NoId THEN e
    ELSE Collect([e EXCEPT !.data[key] = NoId,
                           !.evictionList = ListRemove(e.evictionList, e.data[key])])

LRUHas(e, key) == e.data[key] # NoId

LRULen(e) == Cardinality({k \in Keys : e.data[k] # NoId})

LRUEvict(e) ==
    IF LRULen(e) = 0 \/ Len(e.evictionList) = 0 THEN e
    ELSE LET elem == e.evictionList[Len(e.evictionList)]
         IN  Collect([e EXCEPT !.data[e.items[elem].key] = NoId,
                               !.evictionList = ListRemove(e.evictionList, elem)])

\* ---- lfu.LFU ------------------------------------------------------------
LFUGet(e, key) ==
    IF e.data[key] = NoId THEN NotFound(e)
    ELSE LET id == e.data[key]
             e1 == [e EXCEPT !.items[id].frequency = @ + 1]
         IN  [e |-> HeapFix(e1, e1.items[id].index),
              value |-> e.items[id].value, found |-> TRUE]

LFUSet(e, key, value) ==
    IF e.data[key] # NoId
    THEN LET id == e.data[key]
             e1 == [e EXCEPT !.items[id].value = value, !.items[id].frequency = @ + 1]
         IN  HeapFix(e1, e1.items[id].index)
    ELSE LET id == NewId(e)
             e1 == [e EXCEPT !.items[id] = [NoItem EXCEPT !.key = key, !.value = value,
                                                         !.frequency = 1]]
             e2 == HeapPush(e1, id)
         IN  [e2 EXCEPT !.items[id].index = Len(e2.lfuHeap) - 1,
                        !.data[key] = id]

LFUDelete(e, key) ==
    IF e.data[key] = NoId THEN e
    ELSE LET r == HeapRemove(e, e.items[e.data[key]].index)
         IN  IF r.e.panic # "none" THEN r.e
             ELSE Collect([r.e EXCEPT !.data[key] = NoId])

LFUHas(e, key) == e.data[key] # NoId

LFULen(e) == Cardinality({k \in Keys : e.data[k] # NoId})

LFUEvict(e) ==
    IF LFULen(e) = 0 THEN e
    ELSE LET r == HeapPop(e)
         IN  IF r.e.panic # "none" THEN r.e
             ELSE Collect([r.e EXCEPT !.data[r.e.items[r.id].key] = NoId])

\* ---- basic.Basic --------------------------------------------------------
\* time.Time.After / Before against the item's expiresAt
Expired(item) == now > item.expiresAt

\* BasicGet, were it to leave the expired entry in the map
BasicGet_KeepsEntry(e, key) ==
    IF e.basicData[key] = NoEntry \/ Expired(e.basicData[key])
    THEN NotFound(e)
    ELSE [e |-> e, value |-> e.basicData[key].value, found |-> TRUE]

BasicGet(e, key) ==
    IF e.basicData[key] = NoEntry \/ Expired(e.basicData[key])
    THEN NotFound([e EXCEPT !.basicData[key] = NoEntry])
    ELSE [e |-> e, value |-> e.basicData[key].value, found |-> TRUE]

\* BasicSetWithTTL, were it to refuse a new key once maxSize keys are stored
BasicSetWithTTL_Capped(e, key, value, expiresAt) ==
    IF /\ e.basicData[key] = NoEntry
       /\ Cardinality({k \in Keys : e.basicData[k] # NoEntry}) >= maxSize
    THEN e
    ELSE [e EXCEPT !.basicData[key] = [value |-> value, expiresAt |-> expiresAt]]

BasicSetWithTTL(e, key, value, expiresAt) ==
    [e EXCEPT !.basicData[key] = [value |-> value, expiresAt |-> expiresAt]]

BasicSet(e, key, value) == BasicSetWithTTL(e, key, value, now + ttl)

BasicDelete(e, key) == [e EXCEPT !.basicData[key] = NoEntry]

\* BasicHas, were it to leave out the expiry check
BasicHas_IgnoresExpiry(e, key) == e.basicData[key] # NoEntry

BasicHas(e, key) ==
    IF e.basicData[key] = NoEntry THEN FALSE
    ELSE IF Expired(e.basicData[key]) THEN FALSE
    ELSE TRUE

BasicLen(e) ==
    Cardinality({k \in Keys : e.basicData[k] # NoEntry /\ e.basicData[k].expiresAt > now})

\* BasicEvict, were it to delete the entries at their expiry instant as well
BasicEvict_AtExpiry(e) ==
    [e EXCEPT !.basicData = [k \in Keys |->
        IF e.basicData[k] # NoEntry /\ e.basicData[k].expiresAt <= now
        THEN NoEntry ELSE e.basicData[k]]]

BasicEvict(e) ==
    [e EXCEPT !.basicData = [k \in Keys |->
        IF e.basicData[k] # NoEntry /\ e.basicData[k].expiresAt < now
        THEN NoEntry ELSE e.basicData[k]]]

BasicIsExpired(e, key) ==
    IF e.basicData[key] = NoEntry THEN TRUE ELSE Expired(e.basicData[key])

\* BasicCleanupPass, were it to delete nothing
BasicCleanupPass_KeepsAll(e) == e

\* one pass of the loop in Basic.cleanupExpiredItems
BasicCleanupPass(e) ==
    [e EXCEPT !.basicData = [k \in Keys |->
        IF e.basicData[k] # NoEntry /\ e.basicData[k].expiresAt < now
        THEN NoEntry ELSE e.basicData[k]]]

\* ---- engine.Engine: dispatch on the engine New chose ---------------------
IsExpirable == policy = "Basic"

EngineGet(e, key) ==
    IF e.panic # "none" THEN NotFound(e)
    ELSE CASE policy = "FIFO" -> FIFOGet(e, key)
           [] policy = "LRU" -> LRUGet(e, key)
           [] policy = "LFU" -> LFUGet(e, key)
           [] OTHER -> BasicGet(e, key)

EngineSet(e, key, value) ==
    IF e.panic # "none" THEN e
    ELSE CASE policy = "FIFO" -> FIFOSet(e, key, value)
           [] policy = "LRU" -> LRUSet(e, key, value)
           [] policy = "LFU" -> LFUSet(e, key, value)
           [] OTHER -> BasicSet(e, key, value)

EngineSetWithTTL(e, key, value, expiresAt) ==
    IF policy = "Basic" THEN BasicSetWithTTL(e, key, value, expiresAt)
    ELSE EngineSet(e, key, value)

EngineDelete(e, key) ==
    IF e.panic # "none" THEN e
    ELSE CASE policy = "FIFO" -> FIFODelete(e, key)
           [] policy = "LRU" -> LRUDelete(e, key)
           [] policy = "LFU" -> LFUDelete(e, key)
           [] OTHER -> BasicDelete(e, key)

\* EngineHas, were the lookup to find nothing
EngineHas_Never(e, key) == FALSE

EngineHas(e, key) ==
    CASE policy = "FIFO" -> FIFOHas(e, key)
      [] policy = "LRU" -> LRUHas(e, key)
      [] policy = "LFU" -> LFUHas(e, key)
      [] OTHER -> BasicHas(e, key)

EngineLen(e) ==
    CASE policy = "FIFO" -> FIFOLen(e)
      [] policy = "LRU" -> LRULen(e)
      [] policy = "LFU" -> LFULen(e)
      [] OTHER -> BasicLen(e)

EngineEvict(e) ==
    IF e.panic # "none" THEN e
    ELSE CASE policy = "FIFO" -> FIFOEvict(e)
           [] policy = "LRU" -> LRUEvict(e)
           [] policy = "LFU" -> LFUEvict(e)
           [] OTHER -> BasicEvict(e)

EngineIsExpired(e, key) == IF policy = "Basic" THEN BasicIsExpired(e, key) ELSE FALSE

\* the keys in the engine's map
PresentNow == Present(Eng)

\* ---- cache.Cache: the facade, one whole call ------------------------------
\* CacheSet, were it to evict only above MaxSize
CacheSet_EvictLate(e, key, value) ==
    IF IsExpirable THEN EngineSetWithTTL(e, key, value, now + ttl)
    ELSE IF EngineHas(e, key) THEN EngineSet(e, key, value)
    ELSE LET e1 == IF maxSize > 0 /\ EngineLen(e) > maxSize THEN EngineEvict(e) ELSE e
         IN  EngineSet(e1, key, value)

\* Cache.Set
CacheSet(e, key, value) ==
    IF IsExpirable THEN EngineSetWithTTL(e, key, value, now + ttl)
    ELSE IF EngineHas(e, key) THEN EngineSet(e, key, value)
    ELSE LET e1 == IF maxSize > 0 /\ EngineLen(e) >= maxSize THEN EngineEvict(e) ELSE e
         IN  EngineSet(e1, key, value)

\* Cache.Get; c.lock is never taken by Get, so its RUnlock is fatal
CacheGet(e, key) ==
    LET r == EngineGet(e, key)
    IN  IF r.e.panic # "none" \/ ~r.found THEN NotFound(r.e)
        ELSE IF IsExpirable /\ EngineIsExpired(r.e, key)
        THEN NotFound(Panic(r.e, "RUnlock of unlocked RWMutex"))
        ELSE r

\* ---- the state ------------------------------------------------------------
NoCall == [op |-> "none", key |-> "", value |-> Nil, found |-> FALSE, res |-> Nil,
           n |-> 0, evicted |-> {}, at |-> 0]

\* a caller's locals; in: it is inside an engine method that others may overlap
Idle == [op |-> "none", key |-> "", value |-> Nil, res |-> Nil, in |-> FALSE]

\* time.Second: the clock counts seconds
Second == 1
\* the factor 1024 * 1024 of startCheckMemoryUsage
MiB == 1048576

\* runtime.MemStats.Alloc as whole MiB and the bytes over (Alloc = mib * MiB + rest);
\* evicted: the tick that took the sample called Evict, under c.lock.Lock
NoSample == [mib |-> -1, rest |-> 0, evicted |-> FALSE]

\* cache.New with a Config of one of the policies, sizes, cleanup intervals,
\* memory limits and memory check intervals given
NewCache(policies, sizes, cleanups, limits, checks) ==
    /\ policy \in policies
    /\ maxSize \in sizes
    /\ \E c \in cleanups : cleanupInterval = IF c <= 0 THEN 10 * Second ELSE c
    /\ memoryLimits \in limits
    /\ memoryCheckInterval \in checks
    /\ sleepFrom = 0
    /\ sweepPasses = 0
    /\ memLoop = "starting"
    /\ memLast = NoSample
    /\ ttl \in (IF policy = "Basic" THEN 0..MaxTTL ELSE {0})
    /\ metricsOn \in BOOLEAN
    /\ now = 0
    /\ items = [i \in Ids |-> NoItem]
    /\ data = [k \in Keys |-> NoId]
    /\ evictionList = <<>>
    /\ lfuHeap = <<>>
    /\ basicData = [k \in Keys |-> NoEntry]
    /\ fault = "none"
    /\ hits = 0
    /\ misses = 0
    /\ sweeper = "waiting"
    /\ last = NoCall
    /\ touchOrder = <<>>
    /\ insertOrder = <<>>
    /\ setRun = [ok |-> TRUE, keys |-> <<>>, by |-> {}]
    /\ storedAt = [k \in Keys |-> -1]
    /\ pc = [p \in Procs |-> "idle"]
    /\ loc = [p \in Procs |-> Idle]
    /\ ncalls = 0

\* cache.New with CleanupInterval, MemoryLimits and MemoryCheckInterval left zero
New(policies, sizes) == NewCache(policies, sizes, {0}, {0}, {0})

Init == New(Policies, 1..MaxM)

\* Addresses carry no meaning: the reachable cacheItems are renumbered in the
\* order heap, list, map (by key), so that equal memories are equal states.
KeySeq == <<"A", "B", "C">>

Position(s, x) == CHOOSE i \in 1..Len(s) : s[i] = x

Renumber(e) ==
    LET linked == e.lfuHeap \o e.evictionList
        mapped == [i \in 1..Len(KeySeq) |-> e.data[KeySeq[i]]]
        order == linked \o SelectSeq(mapped, LAMBDA id : id # NoId /\ id \notin Range(linked))
        ren(id) == IF id = NoId THEN NoId ELSE Position(order, id)
    IN  [e EXCEPT !.items = [i \in Ids |-> IF i <= Len(order) THEN e.items[order[i]] ELSE NoItem],
                  !.data = [k \in Keys |-> ren(e.data[k])],
                  !.evictionList = [i \in 1..Len(e.evictionList) |-> ren(e.evictionList[i])],
                  !.lfuHeap = [i \in 1..Len(e.lfuHeap) |-> ren(e.lfuHeap[i])]]

\* the engine's memory after a call; a panic ends the program where it stands
Commit(e) ==
    \E m \in {IF policy = "Basic" THEN e ELSE Renumber(e)} :
        /\ items' = m.items
        /\ data' = m.data
        /\ evictionList' = m.evictionList
        /\ lfuHeap' = m.lfuHeap
        /\ basicData' = m.basicData
        /\ fault' = m.panic

\* Count, were IncrementHits left out
Count_NoHits(e, hit, miss) ==
    /\ hits' = hits
    /\ misses' = IF metricsOn /\ e.panic = "none" /\ miss THEN misses + 1 ELSE misses

\* Metrics.IncrementHits / IncrementMisses behind c.config.Metrics
Count(e, hit, miss) ==
    /\ hits' = IF metricsOn /\ e.panic = "none" /\ hit THEN hits + 1 ELSE hits
    /\ misses' = IF metricsOn /\ e.panic = "none" /\ miss THEN misses + 1 ELSE misses

Running == fault = "none" /\ (metricsOn => hits + misses < MaxCount)

\* frequency stays within MaxFreq
CanTouch(key) ==
    policy = "LFU" /\ data[key] # NoId => items[data[key]].frequency < MaxFreq

\* ---- observers ------------------------------------------------------------
\* keys present, most recently touched (Set, or Get that found it) first
Touched(e, key, touch) ==
    IF policy # "LRU" THEN <<>>
    ELSE LET t == IF touch THEN <<key>> \o Without(touchOrder, key) ELSE touchOrder
         IN  SelectSeq(t, LAMBDA k : k \in Present(e))

\* keys present, in the order in which they became present
Inserted(e, key, set) ==
    IF policy # "FIFO" THEN <<>>
    ELSE LET t == IF set /\ key \notin Range(insertOrder) THEN Append(insertOrder, key)
                  ELSE insertOrder
         IN  SelectSeq(t, LAMBDA k : k \in Present(e))

\* the keys Set since the cache was last empty, while nothing else was called
Run(e, key, set) ==
    IF policy = "Basic" THEN setRun
    ELSE IF set /\ setRun.ok /\ key \notin Range(setRun.keys)
    THEN [ok |-> TRUE, keys |-> Append(setRun.keys, key), by |-> {}]
    ELSE IF Present(e) = {} THEN [ok |-> TRUE, keys |-> <<>>, by |-> {}]
    ELSE [ok |-> FALSE, keys |-> <<>>, by |-> {}]

\* Basic: when the key was last stored by Cache.Set and not deleted since
Stored(call, set) ==
    IF policy # "Basic" THEN storedAt
    ELSE IF set THEN [storedAt EXCEPT ![call.key] = now]
    ELSE IF call.op = "Delete" THEN [storedAt EXCEPT ![call.key] = -1]
    ELSE storedAt

Observe(e, call, touch, set) ==
    /\ last' = [call EXCEPT !.at = now]
    /\ storedAt' = Stored(call, set)
    /\ touchOrder' = Touched(e, call.key, touch)
    /\ insertOrder' = Inserted(e, call.key, set)
    /\ setRun' = Run(e, call.key, set)

\* ---- Spec: facade calls, one at a time ------------------------------------
\* (\E x \in {call} binds the outcome of the call, computed once)
Set(key, value) ==
    /\ Running /\ CanTouch(key)
    /\ \E e \in {CacheSet(Eng, key, value)} :
           /\ Commit(e)
           /\ Count(e, TRUE, FALSE)
           /\ Observe(e, [NoCall EXCEPT !.op = "Set", !.key = key, !.value = value,
                                        !.evicted = Present(Eng) \ Present(e)],
                      e.panic = "none", e.panic = "none")
    /\ UNCHANGED <<cfgVars, loopVars, now, sweeper, concVars>>

Get(key) ==
    /\ Running /\ CanTouch(key)
    /\ \E r \in {CacheGet(Eng, key)} :
           /\ Commit(r.e)
           /\ Count(r.e, r.found, ~r.found)
           /\ Observe(r.e, [NoCall EXCEPT !.op = "Get", !.key = key, !.found = r.found,
                                          !.res = r.value],
                      r.found, FALSE)
    /\ UNCHANGED <<cfgVars, loopVars, now, sweeper, concVars>>

Delete(key) ==
    /\ Running
    /\ \E e \in {EngineDelete(Eng, key)} :
           /\ Commit(e)
           /\ Observe(e, [NoCall EXCEPT !.op = "Delete", !.key = key,
                                          !.found = key \in Present(Eng)],
                      FALSE, FALSE)
    /\ UNCHANGED <<cfgVars, loopVars, now, hits, misses, sweeper, concVars>>

Has(key) ==
    /\ Running
    /\ Observe(Eng, [NoCall EXCEPT !.op = "Has", !.key = key, !.found = EngineHas(Eng, key)],
               FALSE, FALSE)
    /\ UNCHANGED <<cfgVars, loopVars, now, engVars, fault, hits, misses, sweeper, concVars>>

Length ==
    /\ Running
    /\ Observe(Eng, [NoCall EXCEPT !.op = "Len", !.n = EngineLen(Eng)], FALSE, FALSE)
    /\ UNCHANGED <<cfgVars, loopVars, now, engVars, fault, hits, misses, sweeper, concVars>>

Evict ==
    /\ Running
    /\ \E e \in {EngineEvict(Eng)} :
           /\ Commit(e)
           /\ Observe(e, [NoCall EXCEPT !.op = "Evict", !.evicted = Present(Eng) \ Present(e)],
                      FALSE, FALSE)
    /\ UNCHANGED <<cfgVars, loopVars, now, hits, misses, sweeper, concVars>>

\* the clock; only the Basic engine reads it
Tick ==
    /\ fault = "none" /\ policy = "Basic" /\ now < MaxTime
    /\ now' = now + 1
    /\ UNCHANGED <<cfgVars, loopVars, engVars, fault, hits, misses, sweeper, obsVars, concVars>>

\* Basic.startCleanup: the first tick of the cleanup ticker enters the loop
StartCleanup ==
    /\ fault = "none" /\ policy = "Basic" /\ sweeper = "waiting"
    /\ sweeper' = "looping"
    /\ UNCHANGED <<cfgVars, loopVars, now, engVars, fault, hits, misses, obsVars, concVars>>

\* Basic.cleanupExpiredItems: one pass of its loop
CleanupExpiredItems ==
    /\ fault = "none" /\ policy = "Basic" /\ sweeper = "looping"
    /\ Commit(BasicCleanupPass(Eng))
    /\ UNCHANGED <<cfgVars, loopVars, now, hits, misses, sweeper, obsVars, concVars>>

Next ==
    \/ \E k \in Keys, v \in Values : Set(k, v)
    \/ \E k \in Keys : Get(k)
    \/ \E k \in Keys : Delete(k)
    \/ \E k \in Keys : Has(k)
    \/ Length
    \/ Evict
    \/ Tick
    \/ StartCleanup
    \/ CleanupExpiredItems

Spec == Init /\ [][Next]_vars

\* the facade calls alone (FIFO, LRU and LFU have no clock and no sweep)
NextCalls ==
    \/ \E k \in Keys, v \in Values : Set(k, v)
    \/ \E k \in Keys : Get(k)
    \/ \E k \in Keys : Delete(k)
    \/ \E k \in Keys : Has(k)
    \/ Length
    \/ Evict

\* the facade calls and the clock, no sweep
NextClocked ==
    \/ \E k \in Keys, v \in Values : Set(k, v)
    \/ \E k \in Keys : Get(k)
    \/ \E k \in Keys : Delete(k)
    \/ \E k \in Keys : Has(k)
    \/ Length
    \/ Evict
    \/ Tick

\* Set and Evict only
NextFill ==
    \/ \E k \in Keys, v \in Values : Set(k, v)
    \/ Evict

\* Set, Get and Evict only
NextSetGet ==
    \/ \E k \in Keys, v \in Values : Set(k, v)
    \/ \E k \in Keys : Get(k)
    \/ Evict

\* Set, Delete and Evict, and the clock of Basic
NextDelete ==
    \/ \E k \in Keys, v \in Values : Set(k, v)
    \/ \E k \in Keys : Delete(k)
    \/ Evict
    \/ Tick

Bounded == policy \in {"FIFO", "LRU", "LFU"}

InitBounded == New({"FIFO", "LRU", "LFU"}, 1..MaxM)
InitFIFO == New({"FIFO"}, 1..MaxM)
InitLRU == New({"LRU"}, 1..MaxM)
InitLFU == New({"LFU"}, 1..MaxMLFU)
InitBasic == New({"Basic"}, {MaxM})
\* every policy; LFU at MaxSize 1, where its heap holds one item
InitEvery ==
    \/ New({"Basic"}, {MaxM})
    \/ New({"FIFO", "LRU"}, 1..MaxM)
    \/ New({"LFU"}, {1})

SpecBounded == InitBounded /\ [][NextCalls]_vars
SpecFill == InitBounded /\ [][NextFill]_vars
SpecFIFO == InitFIFO /\ [][NextCalls]_vars
SpecLRU == InitLRU /\ [][NextCalls]_vars
SpecLFUSetGet == InitLFU /\ [][NextSetGet]_vars
SpecBasic == InitBasic /\ [][Next]_vars
\* Basic at every MaxSize from 1 to MaxM, metrics off: the calls and the clock
InitBasicSizes == New({"Basic"}, 1..MaxM) /\ ~metricsOn
SpecBasicSizes == InitBasicSizes /\ [][NextClocked]_vars
SpecDelete == InitEvery /\ [][NextDelete]_vars
SpecEvery == InitEvery /\ [][NextClocked]_vars

\* ---- SpecConc: callers whose engine calls interleave -------------------------
\* the engine method a caller at this step of Cache.Set / Get / ... runs next
Method(step) ==
    CASE step = "SetTTL" -> "SetWithTTL"
      [] step \in {"SetHas", "Has"} -> "Has"
      [] step \in {"SetUpdate", "SetStore"} -> "Set"
      [] step = "SetLen" -> "Len"
      [] step \in {"SetEvict", "Evict"} -> "Evict"
      [] step = "GetEngine" -> "Get"
      [] step = "GetExpired" -> "IsExpired"
      [] step = "Delete" -> "Delete"
      [] OTHER -> "none"

\* Methods that other callers can be inside of at the same time: every method
\* of LFU (it has no lock) and the methods of Basic that take c.lock.RLock.
\* fifo, lru and the other methods of Basic run under c.lock.Lock, and the
\* RLock methods of fifo and lru only read: these are single steps.
Overlappable(step) ==
    \/ policy = "LFU" /\ Method(step) # "none"
    \/ policy = "Basic" /\ Method(step) \in {"Get", "Has", "Len"}

\* the method takes the engine's c.lock.Lock
Exclusive(step) ==
    \/ policy = "Basic" /\ Method(step) \in {"SetWithTTL", "Set", "Delete", "Evict", "IsExpired"}
    \/ policy \in {"FIFO", "LRU"} /\ Method(step) \in {"Get", "Set", "Delete", "Evict"}

NobodyInside == \A q \in Procs : ~loc[q].in

\* the method, run now, writes the map (or the heap)
Writes(q) ==
    LET m == Method(pc[q])
        k == loc[q].key
    IN  \/ policy = "LFU" /\ m = "Set"
        \/ policy = "LFU" /\ m \in {"Get", "Delete"} /\ data[k] # NoId
        \/ policy = "LFU" /\ m = "Evict" /\ LFULen(Eng) # 0
        \/ policy = "Basic" /\ m = "Get" /\ ~BasicHas(Eng, k) /\ PresentNow # {}

\* caller p may run the body of the engine method of its step
Ready(p, step) ==
    /\ fault = "none"
    /\ pc[p] = step
    /\ Overlappable(step) => loc[p].in
    /\ Exclusive(step) => NobodyInside

Goto(p, step) ==
    /\ pc' = [pc EXCEPT ![p] = step]
    /\ loc' = [loc EXCEPT ![p].in = FALSE]

Return(p) ==
    /\ pc' = [pc EXCEPT ![p] = "idle"]
    /\ loc' = [loc EXCEPT ![p] = Idle]

\* after an engine call that may have panicked
Then(p, e, step) == IF e.panic # "none" THEN Goto(p, "fault") ELSE Goto(p, step)
ThenReturn(p, e) == IF e.panic # "none" THEN Goto(p, "fault") ELSE Return(p)

\* the callers of the run so far: only Sets, of distinct keys, one per caller
Writers(p, key, set) ==
    IF set /\ setRun.ok /\ key \notin Range(setRun.keys) /\ p \notin setRun.by
    THEN [ok |-> TRUE, keys |-> Append(setRun.keys, key), by |-> setRun.by \cup {p}]
    ELSE [ok |-> FALSE, keys |-> <<>>, by |-> {}]

Call(p, op, key, value, step) ==
    /\ Running /\ pc[p] = "idle" /\ ncalls < MaxCalls
    /\ ncalls' = ncalls + 1
    /\ pc' = [pc EXCEPT ![p] = step]
    /\ loc' = [loc EXCEPT ![p] = [Idle EXCEPT !.op = op, !.key = key, !.value = value]]
    /\ setRun' = Writers(p, key, op = "Set")
    /\ UNCHANGED <<cfgVars, loopVars, now, engVars, fault, hits, misses, sweeper,
                   last, touchOrder, insertOrder, storedAt>>

CallSet(p, key, value) ==
    Call(p, "Set", key, value, IF IsExpirable THEN "SetTTL" ELSE "SetHas")

CallGet(p, key) == Call(p, "Get", key, Nil, "GetEngine")

CallDelete(p, key) == Call(p, "Delete", key, Nil, "Delete")

CallHas(p, key) == Call(p, "Has", key, Nil, "Has")

CallEvict(p) == Call(p, "Evict", "", Nil, "Evict")

\* the result of the call that returns, as the caller sees it
Result(p, found, res) ==
    [NoCall EXCEPT !.op = loc[p].op, !.key = loc[p].key, !.value = loc[p].value,
                   !.found = found, !.res = res, !.at = now]

quiet == <<cfgVars, loopVars, now, sweeper, touchOrder, insertOrder, setRun, storedAt, ncalls>>

\* a caller gets into a method that does not keep the others out
Enter(p) ==
    /\ fault = "none" /\ Overlappable(pc[p]) /\ ~loc[p].in
    /\ loc' = [loc EXCEPT ![p].in = TRUE]
    /\ UNCHANGED <<cfgVars, loopVars, now, engVars, fault, hits, misses, sweeper, obsVars, pc, ncalls>>

\* two callers inside, one of them writing: a data race on the map, which the
\* runtime may stop with "concurrent map writes" (or let pass: the other steps)
RaceFault(p) ==
    /\ fault = "none" /\ loc[p].in
    /\ \E q \in Procs \ {p} : loc[q].in /\ (Writes(p) \/ Writes(q))
    /\ fault' = "concurrent map access"
    /\ pc' = [pc EXCEPT ![p] = "fault"]
    /\ UNCHANGED <<cfgVars, loopVars, now, engVars, hits, misses, sweeper, obsVars, loc, ncalls>>

\* Cache.Set, Basic: c.engine.SetWithTTL(key, value, time.Now().Add(c.config.TTL))
SetTTL(p) ==
    /\ Ready(p, "SetTTL")
    /\ LET e == EngineSetWithTTL(Eng, loc[p].key, loc[p].value, now + ttl)
       IN  Commit(e) /\ Count(e, TRUE, FALSE) /\ ThenReturn(p, e)
    /\ last' = Result(p, FALSE, Nil)
    /\ UNCHANGED quiet

\* Cache.Set: c.engine.Has(key)
SetHas(p) ==
    /\ Ready(p, "SetHas")
    /\ Goto(p, IF EngineHas(Eng, loc[p].key) THEN "SetUpdate" ELSE "SetLen")
    /\ UNCHANGED <<engVars, fault, hits, misses, last, quiet>>

\* Cache.Set: the key was there: c.engine.Set(key, value)
SetUpdate(p) ==
    /\ Ready(p, "SetUpdate")
    /\ LET e == EngineSet(Eng, loc[p].key, loc[p].value)
       IN  Commit(e) /\ Count(e, TRUE, FALSE) /\ ThenReturn(p, e)
    /\ last' = Result(p, FALSE, Nil)
    /\ UNCHANGED quiet

\* Cache.Set: c.config.MaxSize > 0 && c.Len() >= c.config.MaxSize
SetLen(p) ==
    /\ Ready(p, "SetLen")
    /\ Goto(p, IF maxSize > 0 /\ EngineLen(Eng) >= maxSize THEN "SetEvict" ELSE "SetStore")
    /\ UNCHANGED <<engVars, fault, hits, misses, last, quiet>>

\* Cache.Set: c.engine.Evict()
SetEvict(p) ==
    /\ Ready(p, "SetEvict")
    /\ LET e == EngineEvict(Eng)
       IN  Commit(e) /\ Then(p, e, "SetStore")
    /\ UNCHANGED <<hits, misses, last, quiet>>

\* Cache.Set: c.engine.Set(key, value) of the new key
SetStore(p) ==
    /\ Ready(p, "SetStore")
    /\ LET e == EngineSet(Eng, loc[p].key, loc[p].value)
       IN  Commit(e) /\ Count(e, TRUE, FALSE) /\ ThenReturn(p, e)
    /\ last' = Result(p, FALSE, Nil)
    /\ UNCHANGED quiet

\* Cache.Get: c.engine.Get(key)
GetEngine(p) ==
    /\ Ready(p, "GetEngine")
    /\ LET r == EngineGet(Eng, loc[p].key)
       IN  /\ Commit(r.e)
           /\ IF r.e.panic # "none"
              THEN Goto(p, "fault") /\ UNCHANGED <<hits, misses, last>>
              ELSE IF r.found /\ IsExpirable
              THEN /\ pc' = [pc EXCEPT ![p] = "GetExpired"]
                   /\ loc' = [loc EXCEPT ![p].in = FALSE, ![p].res = r.value]
                   /\ UNCHANGED <<hits, misses, last>>
              ELSE /\ Return(p)
                   /\ Count(r.e, r.found, ~r.found)
                   /\ last' = Result(p, r.found, r.value)
    /\ UNCHANGED quiet

\* Cache.Get: c.engine.IsExpired(key); if so c.lock.RUnlock(), which is fatal
\* as Get never took c.lock
GetExpired(p) ==
    /\ Ready(p, "GetExpired")
    /\ IF EngineIsExpired(Eng, loc[p].key)
       THEN /\ fault' = "RUnlock of unlocked RWMutex"
            /\ Goto(p, "fault")
            /\ UNCHANGED <<hits, misses, last>>
       ELSE /\ fault' = fault
            /\ Return(p)
            /\ Count(Eng, TRUE, FALSE)
            /\ last' = Result(p, TRUE, loc[p].res)
    /\ UNCHANGED <<engVars, quiet>>

\* Cache.Delete
DoDelete(p) ==
    /\ Ready(p, "Delete")
    /\ LET e == EngineDelete(Eng, loc[p].key)
       IN  Commit(e) /\ ThenReturn(p, e)
    /\ last' = Result(p, loc[p].key \in PresentNow, Nil)
    /\ UNCHANGED <<hits, misses, quiet>>

\* Cache.Has
DoHas(p) ==
    /\ Ready(p, "Has")
    /\ Return(p)
    /\ last' = Result(p, EngineHas(Eng, loc[p].key), Nil)
    /\ UNCHANGED <<engVars, fault, hits, misses, quiet>>

\* Cache.Evict
DoEvict(p) ==
    /\ Ready(p, "Evict")
    /\ LET e == EngineEvict(Eng)
       IN  Commit(e) /\ ThenReturn(p, e)
    /\ last' = Result(p, FALSE, Nil)
    /\ UNCHANGED <<hits, misses, quiet>>

\* the clock, while callers are at work
TickConc ==
    /\ fault = "none" /\ policy = "Basic" /\ now < MaxTime
    /\ now' = now + 1
    /\ UNCHANGED <<cfgVars, loopVars, engVars, fault, hits, misses, sweeper, obsVars, concVars>>

\* Basic.cleanupExpiredItems: one pass, under c.lock.Lock
CleanupConc ==
    /\ fault = "none" /\ policy = "Basic" /\ sweeper = "looping" /\ NobodyInside
    /\ Commit(BasicCleanupPass(Eng))
    /\ UNCHANGED <<cfgVars, loopVars, now, hits, misses, sweeper, obsVars, concVars>>

NextConc ==
    \/ \E p \in Procs, k \in Keys, v \in Values : CallSet(p, k, v)
    \/ \E p \in Procs, k \in Keys : CallGet(p, k)
    \/ \E p \in Procs, k \in Keys : CallDelete(p, k)
    \/ \E p \in Procs, k \in Keys : CallHas(p, k)
    \/ \E p \in Procs : CallEvict(p)
    \/ \E p \in Procs : Enter(p)
    \/ \E p \in Procs : RaceFault(p)
    \/ \E p \in Procs : SetTTL(p)
    \/ \E p \in Procs : SetHas(p)
    \/ \E p \in Procs : SetUpdate(p)
    \/ \E p \in Procs : SetLen(p)
    \/ \E p \in Procs : SetEvict(p)
    \/ \E p \in Procs : SetStore(p)
    \/ \E p \in Procs : GetEngine(p)
    \/ \E p \in Procs : GetExpired(p)
    \/ \E p \in Procs : DoDelete(p)
    \/ \E p \in Procs : DoHas(p)
    \/ \E p \in Procs : DoEvict(p)
    \/ TickConc
    \/ StartCleanup
    \/ CleanupConc

SpecConc == Init /\ [][NextConc]_vars

\* Basic: entries are stored and then left alone; the clock and the sweep run
NextSweep ==
    \/ \E k \in Keys, v \in Values : Set(k, v)
    \/ Tick
    \/ StartCleanup
    \/ CleanupExpiredItems

\* fair scheduling: time passes, the cleanup ticker fires, the loop goes on
FairSweep ==
    /\ WF_vars(Tick)
    /\ WF_vars(StartCleanup)
    /\ WF_vars(CleanupExpiredItems)

SpecSweep == InitBasic /\ [][NextSweep]_vars /\ FairSweep

\* ---- the sweep on its timers ---------------------------------------------------
\* the ticks the cleanup ticker has fired: one every cleanupInterval since New
TicksFired == now \div cleanupInterval

\* the clock, a second at a time
TickSecond ==
    /\ fault = "none" /\ policy = "Basic" /\ now < MaxSeconds
    /\ now' = now + Second
    /\ UNCHANGED <<cfgVars, loopVars, engVars, fault, hits, misses, sweeper, obsVars, concVars>>

\* Basic.startCleanup: `for range ticker.C` receives the first tick and calls
\* cleanupExpiredItems, which begins with time.Sleep(time.Second)
StartCleanupOnTick ==
    /\ fault = "none" /\ policy = "Basic" /\ sweeper = "waiting"
    /\ TicksFired >= 1
    /\ sweeper' = "looping"
    /\ sleepFrom' = now
    /\ UNCHANGED <<cfgVars, sweepPasses, memLoop, memLast, now, engVars, fault, hits, misses,
                   obsVars, concVars>>

\* Basic.cleanupExpiredItems: the Sleep is over; one pass under c.lock.Lock, and
\* the loop sleeps again
PassAfterSleep ==
    /\ fault = "none" /\ policy = "Basic" /\ sweeper = "looping"
    /\ now >= sleepFrom + Second
    /\ Commit(BasicCleanupPass(Eng))
    /\ sweepPasses' = sweepPasses + 1
    /\ sleepFrom' = now
    /\ UNCHANGED <<cfgVars, memLoop, memLast, now, hits, misses, sweeper, obsVars, concVars>>

\* Basic: entries are stored while the ticker and the loop run on the clock
NextCadence ==
    \/ \E k \in Keys, v \in Values : Set(k, v)
    \/ TickSecond
    \/ StartCleanupOnTick
    \/ PassAfterSleep

\* Basic with CleanupInterval unset (New makes it 10 s) or 1 .. MaxInterval s
InitCadence == NewCache({"Basic"}, {MaxM}, 0..MaxInterval, {0}, {0}) /\ ~metricsOn

SpecCadence == InitCadence /\ [][NextCadence]_vars

\* Cache.startCheckMemoryUsage gets past its two early returns, were the test
\* of MemoryLimits left out
LoopRuns_NoLimitCheck(limits, interval) == interval > 0

\* Cache.startCheckMemoryUsage gets past its two early returns
LoopRuns(limits, interval) == limits # 0 /\ interval > 0

\* Cache.startCheckMemoryUsage, up to its ticker
StartCheckMemoryUsage ==
    /\ fault = "none" /\ memLoop = "starting"
    /\ memLoop' = IF LoopRuns(memoryLimits, memoryCheckInterval) THEN "ticking" ELSE "returned"
    /\ UNCHANGED <<cfgVars, sleepFrom, sweepPasses, memLast, now, engVars, fault, hits, misses,
                   sweeper, obsVars, concVars>>

\* memAlloc > maxMem: mem.Alloc / 1024 / 1024 against uint64(MemoryLimits) * 1024 * 1024
OverLimit(sample, limits) == sample.mib > limits * MiB

\* Cache.startCheckMemoryUsage: one tick of its ticker, runtime.ReadMemStats
\* giving the sample: above the limit, c.lock.Lock(); c.engine.Evict();
\* c.lock.Unlock(). Nobody else takes c.lock; Evict waits for the engine's lock.
CheckMemoryUsage(sample) ==
    /\ fault = "none" /\ memLoop = "ticking"
    /\ IF OverLimit(sample, memoryLimits)
       THEN /\ Exclusive("Evict") => NobodyInside
            /\ Commit(EngineEvict(Eng))
            /\ memLast' = [mib |-> sample.mib, rest |-> sample.rest, evicted |-> TRUE]
       ELSE /\ UNCHANGED <<engVars, fault>>
            /\ memLast' = [mib |-> sample.mib, rest |-> sample.rest, evicted |-> FALSE]
    /\ UNCHANGED <<cfgVars, sleepFrom, sweepPasses, memLoop, now, hits, misses, sweeper,
                   obsVars, concVars>>

\* the samples tried: nothing, one MiB, and one MiB more than a limit times MiB,
\* each with no byte over or with more bytes over than any limit
Samples == [mib : {0, 1} \cup {l * MiB + 1 : l \in 0..MaxLimit}, rest : {0, MaxLimit + 1}]
\* of these, the whole MiB counts below and above the limits
LoopSamples == {x \in Samples : x.rest = 0 /\ x.mib # 1}

\* Basic: the callers and both background loops
NextLoops ==
    \/ \E p \in Procs, k \in Keys, v \in Values : CallSet(p, k, v)
    \/ \E p \in Procs, k \in Keys : CallGet(p, k)
    \/ \E p \in Procs, k \in Keys : CallDelete(p, k)
    \/ \E p \in Procs, k \in Keys : CallHas(p, k)
    \/ \E p \in Procs : CallEvict(p)
    \/ \E p \in Procs : Enter(p)
    \/ \E p \in Procs : SetTTL(p)
    \/ \E p \in Procs : GetEngine(p)
    \/ \E p \in Procs : GetExpired(p)
    \/ \E p \in Procs : DoDelete(p)
    \/ \E p \in Procs : DoHas(p)
    \/ \E p \in Procs : DoEvict(p)
    \/ TickConc
    \/ StartCleanup
    \/ CleanupConc
    \/ StartCheckMemoryUsage
    \/ \E x \in LoopSamples : CheckMemoryUsage(x)

\* Basic: what caller p does next inside the call it made
Steps(p) ==
    \/ Enter(p)
    \/ SetTTL(p)
    \/ GetEngine(p)
    \/ GetExpired(p)
    \/ DoDelete(p)
    \/ DoHas(p)
    \/ DoEvict(p)

\* fair scheduling: a caller that can go on does, time passes, the sweep runs
Fairness ==
    /\ \A p \in Procs : WF_vars(Steps(p))
    /\ WF_vars(TickConc)
    /\ WF_vars(StartCleanup)
    /\ WF_vars(CleanupConc)

\* Basic with a memory limit and a check interval configured, metrics off
InitLoops == NewCache({"Basic"}, {MaxM}, {0}, {1}, {Second}) /\ ~metricsOn

SpecLoops == InitLoops /\ [][NextLoops]_vars /\ Fairness

\* whole calls that fill and empty the cache, the clock and the memory loop
NextMemory ==
    \/ \E k \in Keys, v \in Values : Set(k, v)
    \/ \E k \in Keys : Delete(k)
    \/ Tick
    \/ StartCheckMemoryUsage
    \/ \E x \in Samples : CheckMemoryUsage(x)

\* every policy (LFU at MaxSize 1), every limit up to MaxLimit, and a negative,
\* a zero and a positive check interval; metrics off
InitMemory ==
    /\ \/ NewCache({"Basic", "FIFO", "LRU"}, {MaxM}, {0}, 0..MaxLimit, {-Second, 0, Second})
       \/ NewCache({"LFU"}, {1}, {0}, 0..MaxLimit, {-Second, 0, Second})
    /\ ~metricsOn

SpecMemory == InitMemory /\ [][NextMemory]_vars

\* FIFO and LRU: callers whose engine calls interleave
NextList ==
    \/ \E p \in Procs, k \in Keys, v \in Values : CallSet(p, k, v)
    \/ \E p \in Procs, k \in Keys : CallGet(p, k)
    \/ \E p \in Procs, k \in Keys : CallDelete(p, k)
    \/ \E p \in Procs, k \in Keys : CallHas(p, k)
    \/ \E p \in Procs : CallEvict(p)
    \/ \E p \in Procs : SetHas(p)
    \/ \E p \in Procs : SetUpdate(p)
    \/ \E p \in Procs : SetLen(p)
    \/ \E p \in Procs : SetEvict(p)
    \/ \E p \in Procs : SetStore(p)
    \/ \E p \in Procs : GetEngine(p)
    \/ \E p \in Procs : DoDelete(p)
    \/ \E p \in Procs : DoHas(p)
    \/ \E p \in Procs : DoEvict(p)

\* metrics off: the counters play no part in the list
InitList == New({"FIFO", "LRU"}, 1..MaxM) /\ ~metricsOn

SpecList == InitList /\ [][NextList]_vars

\* ==== the claims ==============================================================
Last(s) == s[Len(s)]
\* LFU: the access count of a present key
CountOf(key) == items[data[key]].frequency

\* C1: on FIFO, LRU and LFU with MaxSize = M > 0, after any sequence of facade
\* Set, Get, Delete and Evict calls, Len() is at most M.
C1_LenAtMostMaxSize == Bounded /\ fault = "none" => EngineLen(Eng) <= maxSize

\* C2: M+1 distinct keys Set into an empty cache, nothing else called in between,
\* leave exactly M of them present; the last one set is present; on FIFO and LRU
\* the absent one is the first one set (on LFU every count is 1 in such a run, so
\* whichever key is absent had a minimal count).
C2_FillEvictsOne ==
    Bounded /\ setRun.ok /\ Len(setRun.keys) = maxSize + 1 =>
        /\ fault = "none"
        /\ PresentNow \subseteq Range(setRun.keys)
        /\ Cardinality(PresentNow) = maxSize
        /\ Last(setRun.keys) \in PresentNow
        /\ policy \in {"FIFO", "LRU"} => setRun.keys[1] \notin PresentNow

C2_Witness ==
    /\ Bounded /\ setRun.ok /\ Len(setRun.keys) = maxSize + 1
    /\ last.op = "Set" /\ last.evicted # {}

\* C3: on LFU, with only Set, Get and Evict called, every key an eviction removes
\* had an access count no greater than that of any key present at that moment.
C3_LFUEvictsMinCount ==
    [][policy = "LFU" =>
        \A k \in last'.evicted : \A j \in PresentNow : CountOf(k) <= CountOf(j)]_vars

\* C4: on LRU every key an eviction removes is the present key touched longest
\* ago (touch: a Set of the key or a Get that found it; Has is no touch).
C4_LRUEvictsOldestTouch ==
    [][policy = "LRU" =>
        \A k \in last'.evicted : touchOrder # <<>> /\ k = Last(touchOrder)]_vars

C4_Witness ==
    /\ policy = "LRU" /\ last.op = "Set" /\ last.evicted # {}
    /\ maxSize = 2 /\ Len(touchOrder) = 2

\* FIFO: the key the next eviction would take
NextVictim == IF evictionList = <<>> THEN "" ELSE items[Head(evictionList)].key

\* C5: on FIFO every key an eviction removes is the present key that became
\* present first, and neither a Get nor a Set of a key already present changes
\* which key is evicted next.
C5_FIFOEvictsFirstInserted ==
    [][policy = "FIFO" =>
        /\ \A k \in last'.evicted : insertOrder # <<>> /\ k = Head(insertOrder)
        /\ (last'.op = "Get" \/ (last'.op = "Set" /\ last'.key \in PresentNow))
              => NextVictim' = NextVictim]_vars

C5_Witness ==
    /\ policy = "FIFO" /\ last.op = "Set" /\ last.evicted # {}
    /\ maxSize = 2 /\ Len(insertOrder) = 2

\* C6: on every policy and in every state, Set(k, v) followed at once by Get(k),
\* the clock not having moved, returns (v, true), and neither call faults.
C6_SetThenGet ==
    /\ [](last.op = "Set" => fault = "none")
    /\ [][last.op = "Set" /\ last.at = now /\ last'.op = "Get" /\ last'.key = last.key
            => fault' = "none" /\ last'.found /\ last'.res = last.value]_vars

\* the keys of the items in the engine's auxiliary structure
AuxKeys ==
    IF policy = "LFU" THEN {items[lfuHeap[i]].key : i \in 1..Len(lfuHeap)}
    ELSE {items[evictionList[i]].key : i \in 1..Len(evictionList)}

Ended == \A p \in Procs : pc[p] \in {"idle", "fault"}

\* C7: N callers, each calling Set once with a key of its own, on FIFO, LRU or
\* LFU with 0 < MaxSize = M < N: when all have ended, whatever the interleaving,
\* exactly M keys are stored and the map and the list / heap hold the same keys.
C7_WritersLeaveM ==
    Bounded /\ setRun.ok /\ setRun.by = Procs /\ Ended /\ maxSize < NumProcs =>
        /\ fault = "none"
        /\ Cardinality(PresentNow) = maxSize
        /\ PresentNow = AuxKeys

\* C8: under every interleaving no Get ends in a fault (in particular not by
\* releasing c.lock, which it never acquired), and a Get that returns gives
\* (value, true) or (nil, false).
C8_GetReturnsNormally ==
    /\ \A p \in Procs : ~(loc[p].op = "Get" /\ pc[p] = "fault")
    /\ last.op = "Get" => IF last.found THEN last.res \in Values ELSE last.res = Nil

\* Basic: what Has and Get report for the key in this state
Reported(key) == EngineHas(Eng, key) /\ CacheGet(Eng, key).found
Denied(key) == ~EngineHas(Eng, key) /\ ~CacheGet(Eng, key).found

\* C9: on Basic with TTL d > 0, a key stored by Set at time t (and not deleted)
\* is reported by Has and Get at every time before t+d and by neither at every
\* time after t+d, whether or not a sweep pass has run.
C9_PresentUntilTTL ==
    policy = "Basic" /\ ttl > 0 /\ fault = "none" =>
        \A k \in Keys : storedAt[k] >= 0 =>
            /\ now < storedAt[k] + ttl => Reported(k)
            /\ now > storedAt[k] + ttl => Denied(k)
            /\ last.op \in {"Get", "Has"} /\ last.key = k /\ last.at = now =>
                  /\ now < storedAt[k] + ttl => last.found
                  /\ now > storedAt[k] + ttl => ~last.found

\* an expired key was read, no sweep having run, and a fresh one as well
C9_Witness ==
    /\ policy = "Basic" /\ ttl > 0 /\ sweeper = "waiting"
    /\ last.op = "Get" /\ last.at = now /\ ~last.found
    /\ storedAt[last.key] >= 0 /\ now > storedAt[last.key] + ttl
    /\ \E k \in Keys : storedAt[k] >= 0 /\ now < storedAt[k] + ttl /\ Reported(k)

\* C10: on Basic with TTL = 0 a key stored by Set stays present (Has, Get, Len)
\* at every later time until it is deleted.
C10_NoExpiryWithoutTTL ==
    policy = "Basic" /\ ttl = 0 /\ fault = "none" =>
        /\ \A k \in Keys : storedAt[k] >= 0 => Reported(k)
        /\ EngineLen(Eng) = Cardinality({k \in Keys : storedAt[k] >= 0})

\* the value stored under a key of the map
ValueOf(key) == IF policy = "Basic" THEN basicData[key].value ELSE items[data[key]].value

\* the step is a facade Delete
Deletes == last'.op = "Delete" /\ Delete(last'.key)

\* C11: on every policy a Delete(k) of a key in the map ends without fault and
\* leaves k out of the map (so Has(k) is false and Get(k) finds nothing) and out
\* of the list / heap, while every other key stays in the map with its value and
\* keeps its item in the list / heap.
C11_DeleteRemovesOnlyKey ==
    [][\A k \in PresentNow : k = last'.key /\ Deletes =>
          /\ fault' = "none"
          /\ PresentNow' = PresentNow \ {k}
          /\ Denied(k)'
          /\ AuxKeys' = AuxKeys \ {k}
          /\ \A j \in PresentNow \ {k} : ValueOf(j)' = ValueOf(j)]_vars

\* C12: on every policy a Delete(k) of a key that is not in the map ends without
\* fault and changes nothing: map, values, list / heap, access counts, expiry
\* instants and counters are what they were.
C12_DeleteAbsentIsNoOp ==
    [][Deletes /\ last'.key \notin PresentNow =>
          /\ fault' = "none"
          /\ UNCHANGED <<engVars, now, hits, misses>>]_vars

\* a key that is not in the map was deleted while another was in it
C12_Witness ==
    /\ last.op = "Delete" /\ ~last.found /\ fault = "none"
    /\ PresentNow # {}

\* a facade Set returns; a facade Get returns with / without the value
SetReturns == last'.op = "Set" /\ fault' = "none" /\ Set(last'.key, last'.value)
GetFinds == last'.op = "Get" /\ fault' = "none" /\ last'.found /\ Get(last'.key)
GetMisses == last'.op = "Get" /\ fault' = "none" /\ ~last'.found /\ Get(last'.key)

C14_LFUMapMatchesHeap == policy = "LFU" /\ fault = "none" => PresentNow = AuxKeys

\* C15: on FIFO and LRU, in every state reached by whole calls and by callers
\* whose engine calls interleave, the keys of the data map are the keys of the
\* items in evictionList, every key of the map points at its own item, and no
\* key has two items in the list.
C15_ListMatchesMap ==
    policy \in {"FIFO", "LRU"} =>
        /\ fault = "none"
        /\ PresentNow = AuxKeys
        /\ Len(evictionList) = Cardinality(AuxKeys)
        /\ \A k \in PresentNow : data[k] \in Range(evictionList) /\ items[data[k]].key = k

\* two callers passed the capacity test together and both stored their key
C15_Witness ==
    /\ policy \in {"FIFO", "LRU"} /\ Ended /\ ncalls > 0
    /\ Cardinality(PresentNow) > maxSize
    /\ Len(evictionList) = Cardinality(PresentNow)

\* the step is a facade Evict
Evicts == last'.op = "Evict" /\ Evict

\* C16: on FIFO, LRU and LFU, whatever was called before, an Evict with at
\* least one key in the map ends without fault and takes exactly one key out of
\* the map (Len goes down by 1), and an Evict with no key in the map ends without
\* fault and changes nothing.
C16_EvictRemovesOne ==
    [][Bounded /\ Evicts =>
          /\ fault' = "none"
          /\ PresentNow' \subseteq PresentNow
          /\ IF PresentNow = {} THEN UNCHANGED engVars
             ELSE EngineLen(Eng)' = EngineLen(Eng) - 1]_vars

\* C17: on all four engines, every step that changes the map, the list or the
\* heap is taken inside a method that holds the engine's c.lock.Lock (a caller's
\* method, or a pass of the sweep), and no two callers are at once inside engine
\* methods of which one writes.
C17_WritesHoldLock ==
    /\ [](\A p, q \in Procs :
            p # q /\ loc[p].in /\ loc[q].in => ~Writes(p) /\ ~Writes(q))
    /\ [][engVars' # engVars =>
            \/ \E p \in Procs : Exclusive(pc[p]) /\ pc'[p] # pc[p]
            \/ policy = "Basic" /\ sweeper = "looping" /\ pc' = pc]_vars

\* C18: with fair scheduling, under every interleaving of the callers, the sweep
\* and the memory loop, every facade call that was made returns.
C18_CallsReturn == \A p \in Procs : (pc[p] # "idle") ~> (pc[p] = "idle")

\* the step is a facade Set
Sets == last'.op = "Set" /\ Set(last'.key, last'.value)

\* FIFO / LRU: the keys of evictionList, front first
KeyOrder == [i \in 1..Len(evictionList) |-> items[evictionList[i]].key]

\* C19: on FIFO, LRU and LFU a facade Set of a key that is in the map evicts
\* nothing, also at or above MaxSize: the map holds the same keys afterwards,
\* every other key keeps its value and its place in the list or its access
\* count, and the key itself has the new value.
C19_OverwriteKeepsKeys ==
    [][\A k \in PresentNow : Bounded /\ k = last'.key /\ Sets =>
          /\ PresentNow' = PresentNow
          /\ last'.evicted = {}
          /\ \A j \in PresentNow \ {k} : ValueOf(j)' = ValueOf(j)
          /\ policy = "FIFO" => KeyOrder' = KeyOrder
          /\ policy = "LRU" => Without(KeyOrder', k) = Without(KeyOrder, k)
          /\ policy = "LFU" => \A j \in PresentNow \ {k} : CountOf(j)' = CountOf(j)
          /\ fault' = "none" => ValueOf(k)' = last'.value]_vars

\* LFU: a full cache of two keys, the last call a Set of a key that was there
C19_Witness ==
    /\ policy = "LFU" /\ fault = "none" /\ maxSize >= 2
    /\ Cardinality(PresentNow) = maxSize
    /\ last.op = "Set" /\ last.key \in PresentNow /\ CountOf(last.key) >= 2

\* Basic: the key has an entry whose expiry instant has passed
Overdue(key) == basicData[key] # NoEntry /\ basicData[key].expiresAt < now

\* C20: on Basic, with the clock and the sweep scheduled fairly and no Get, Has,
\* Delete or Evict ever called, every entry whose expiry instant has passed is
\* eventually no longer in the map.
C20_SweepRemovesExpired == \A k \in Keys : Overdue(k) ~> ~Overdue(k)

\* the sweep took an entry out of the map and left one that is not yet due
C20_Witness ==
    /\ policy = "Basic" /\ sweeper = "looping"
    /\ \E k \in Keys : storedAt[k] >= 0 /\ basicData[k] = NoEntry
    /\ \E j \in Keys : basicData[j] # NoEntry /\ ~Overdue(j)

\* C21: on Basic every pass of the sweep is started by a tick of the cleanup
\* ticker of its own: at every moment the passes made are at most the ticks the
\* ticker has fired.
C21_PassesWithinTicks == policy = "Basic" => sweepPasses <= TicksFired

\* C22: on Basic, at every instant and after any sequence of calls, Len() is
\* the number of keys for which Has returns true at that instant, the instant
\* of an entry's expiry included.
C22_LenCountsHas ==
    policy = "Basic" /\ fault = "none" =>
        EngineLen(Eng) = Cardinality({k \in Keys : EngineHas(Eng, k)})

\* C25: on Basic an Evict takes out of the map every entry whose expiry instant
\* is before the current time and no entry that Has reports present; every entry
\* it leaves keeps its value and its expiry instant.
C25_BasicEvictRemovesExpired ==
    [][policy = "Basic" /\ Evicts =>
          /\ fault' = "none"
          /\ \A k \in Keys :
                /\ Overdue(k) => basicData'[k] = NoEntry
                /\ ~Overdue(k) => basicData'[k] = basicData[k]
                /\ EngineHas(Eng, k) => k \in PresentNow' /\ EngineHas(Eng, k)']_vars

\* an Evict took an entry out and left one that is at its expiry instant
C25_Witness ==
    /\ policy = "Basic" /\ fault = "none"
    /\ last.op = "Evict" /\ last.evicted # {} /\ last.at = now
    /\ \E k \in Keys : basicData[k] # NoEntry /\ basicData[k].expiresAt = now

\* the step is a facade Get / a facade Has
Gets == last'.op = "Get" /\ Get(last'.key)
Hases == last'.op = "Has" /\ Has(last'.key)

\* C26: on Basic, of an entry whose expiry instant has passed, Get(k) returns
\* not-found and takes k, and nothing else, out of the map, whereas Has(k)
\* returns false and leaves the map as it is.
C26_GetRemovesHasKeeps ==
    [][\A k \in Keys : policy = "Basic" /\ Overdue(k) /\ k = last'.key =>
          /\ Gets => /\ fault' = "none"
                      /\ ~last'.found /\ last'.res = Nil
                      /\ basicData'[k] = NoEntry
                      /\ \A j \in Keys \ {k} : basicData'[j] = basicData[j]
          /\ Hases => /\ ~last'.found
                       /\ UNCHANGED <<engVars, fault>>]_vars

\* no sweep has run, and a Get of an expired key has just taken it out
C26_Witness ==
    /\ policy = "Basic" /\ fault = "none" /\ sweeper = "waiting"
    /\ last.op = "Get" /\ ~last.found /\ last.at = now
    /\ storedAt[last.key] >= 0 /\ now > storedAt[last.key] + ttl
    /\ basicData[last.key] = NoEntry
    /\ PresentNow # {}

\* Basic: the keys stored by Set, not deleted since, and short of their expiry
Fresh == {k \in Keys : storedAt[k] >= 0 /\ now < storedAt[k] + ttl}

\* C27: on Basic with MaxSize = M > 0 the capacity is not enforced: when more
\* than M keys have been Set and none of them has reached its expiry instant,
\* all of them are present (Has) and Len is above M; and a Set never takes
\* another key out of the map nor changes its entry.
C27_BasicIgnoresMaxSize ==
    /\ [](policy = "Basic" /\ maxSize > 0 /\ fault = "none"
             /\ Cardinality(Fresh) > maxSize =>
                /\ \A k \in Fresh : EngineHas(Eng, k)
                /\ EngineLen(Eng) >= Cardinality(Fresh)
                /\ EngineLen(Eng) > maxSize)
    /\ [][\A k \in Keys : policy = "Basic" /\ k = last'.key /\ Sets =>
             /\ fault' = "none"
             /\ PresentNow' = PresentNow \cup {k}
             /\ last'.evicted = {}
             /\ \A j \in Keys \ {k} : basicData'[j] = basicData[j]]_vars

\* the Set of one key more than MaxSize has just returned
C27_Witness ==
    /\ policy = "Basic" /\ fault = "none" /\ maxSize > 0
    /\ last.op = "Set" /\ last.at = now
    /\ Cardinality(Fresh) = maxSize + 1
    /\ EngineLen(Eng) = maxSize + 1

\* the sampled mem.Alloc, in bytes, is greater than the limit
AllocAbove(sample, limits) ==
    \/ sample.mib > limits \div MiB
    \/ sample.mib = limits \div MiB /\ sample.rest > limits % MiB

\* the step is a tick of the memory loop
MemoryTick ==
    /\ memLast' # NoSample
    /\ CheckMemoryUsage([mib |-> memLast'.mib, rest |-> memLast'.rest])

\* C23: with MemoryLimits = L > 0 (bytes) and a positive MemoryCheckInterval,
\* a tick of the memory loop calls the engine's Evict (once, under c.lock.Lock)
\* if and only if the sampled mem.Alloc in bytes is greater than L.
C23_EvictIffAboveLimit ==
    [][memoryLimits > 0 /\ memoryCheckInterval > 0 /\ MemoryTick =>
          (memLast'.evicted <=> AllocAbove(memLast', memoryLimits))]_vars

\* C24: with MemoryLimits = 0 or MemoryCheckInterval <= 0 the memory loop never
\* gets to its ticker: it takes no sample, never takes c.lock and never calls
\* Evict, whatever mem.Alloc is and however long the cache lives.
C24_LoopOffWithoutLimits ==
    memoryLimits = 0 \/ memoryCheckInterval <= 0 =>
        memLoop # "ticking" /\ memLast = NoSample

\* the loop has returned though a limit was set, and the cache lives on
C24_Witness ==
    /\ memoryLimits > 0 /\ memoryCheckInterval <= 0 /\ memLoop = "returned"
    /\ last.op = "Delete" /\ PresentNow # {}

\* C28: on LFU, after every Set, Get, Delete and Evict, the index field of each
\* item of the heap is the position of that item in the heap slice, and each key
\* of the map has its item there, so that heap.Fix and heap.Remove called with
\* item.index act on that item.
C28_IndexIsPosition ==
    policy = "LFU" /\ fault = "none" =>
        /\ \A i \in 1..Len(lfuHeap) : items[lfuHeap[i]].index = i - 1
        /\ \A k \in PresentNow :
              /\ InHeap(Eng, items[data[k]].index)
              /\ lfuHeap[items[data[k]].index + 1] = data[k]

====
